---- MODULE Spec2Model ----
(***************************************************************************)
(* Model of the http-mock-server request handler                           *)
(* (internal/handler/mockHandler.go, internal/config/config.go).           *)
(*                                                                         *)
(* Strings are sequences of one-character strings, so that upper-casing,   *)
(* regular-expression compilation and matching are computed character by   *)
(* character as the Go code and its libraries compute them.                *)
(***************************************************************************)
EXTENDS Integers, Sequences, FiniteSets, TLC

(***************************************************************************)
(* Bounds of the model                                                     *)
(***************************************************************************)
\* number of concurrently served requests
NumReqs == 2
\* longest pattern / value text enumerated for the matchers
MaxPatLen == 2
\* largest configured delay bound (milliseconds) enumerated
MaxDelay == 1

Reqs == 1..NumReqs

Nil == [nil |-> TRUE]

(***************************************************************************)
(* Text helpers                                                            *)
(***************************************************************************)
Lower == <<"a","b","c","d","e","f","g","h","i","j","k","l","m",
           "n","o","p","q","r","s","t","u","v","w","x","y","z">>
Upper == <<"A","B","C","D","E","F","G","H","I","J","K","L","M",
           "N","O","P","Q","R","S","T","U","V","W","X","Y","Z">>

IsLower(c) == \E i \in 1..26 : Lower[i] = c
IsUpper(c) == \E i \in 1..26 : Upper[i] = c

ToUpperChar(c) ==
    IF IsLower(c) THEN Upper[CHOOSE i \in 1..26 : Lower[i] = c] ELSE c

ToLowerChar(c) ==
    IF IsUpper(c) THEN Lower[CHOOSE i \in 1..26 : Upper[i] = c] ELSE c

\* strings.ToUpper on ASCII text
ToUpper(s) == [i \in 1..Len(s) |-> ToUpperChar(s[i])]

\* textproto.CanonicalMIMEHeaderKey: first letter and every letter after a
\* '-' upper-cased, every other letter lower-cased
CanonicalHeaderKey(s) ==
    [i \in 1..Len(s) |->
        IF i = 1 \/ s[i-1] = "-" THEN ToUpperChar(s[i]) ELSE ToLowerChar(s[i])]

\* all sequences over S of length at most n
RECURSIVE SeqsUpTo(_, _)
SeqsUpTo(S, n) ==
    IF n = 0 THEN {<<>>}
    ELSE LET shorter == SeqsUpTo(S, n - 1)
         IN  shorter \cup {Append(s, c) : s \in shorter, c \in S}

(***************************************************************************)
(* Regular expressions: the part of Go's regexp syntax made of literal     *)
(* characters, '.', the postfix '*', and bracketed character classes       *)
(* without negation or ranges.                                             *)
(***************************************************************************)
\* index of the ']' closing a class opened at p[i] = "[", 0 when there is
\* none; a ']' right after the '[' is a member of the class
ClassEnd(p, i) ==
    LET cands == {j \in (i + 2)..Len(p) : p[j] = "]"}
    IN  IF cands = {} THEN 0
        ELSE CHOOSE j \in cands : \A k \in cands : j <= k

RECURSIVE ParseFrom(_, _, _)
ParseFrom(p, i, items) ==
    IF i > Len(p) THEN [ok |-> TRUE, prog |-> items]
    ELSE IF p[i] = "*" THEN
        \* missing argument to repetition operator / nested repetition
        IF items = <<>> \/ items[Len(items)].star
        THEN [ok |-> FALSE, prog |-> <<>>]
        ELSE ParseFrom(p, i + 1,
                 [items EXCEPT ![Len(items)].star = TRUE])
    ELSE IF p[i] = "[" THEN
        LET j == ClassEnd(p, i)
        IN  IF j = 0 THEN [ok |-> FALSE, prog |-> <<>>]   \* missing closing ]
            ELSE ParseFrom(p, j + 1,
                     Append(items, [any |-> FALSE,
                                    set |-> {p[k] : k \in (i + 1)..(j - 1)},
                                    star |-> FALSE]))
    ELSE IF p[i] = "." THEN
        ParseFrom(p, i + 1, Append(items, [any |-> TRUE, set |-> {}, star |-> FALSE]))
    ELSE
        ParseFrom(p, i + 1, Append(items, [any |-> FALSE, set |-> {p[i]}, star |-> FALSE]))

\* regexp.Compile: ok is FALSE when the pattern is rejected
Compile(p) == ParseFrom(p, 1, <<>>)

ItemAccepts(item, c) == IF item.any THEN c # "\n" ELSE c \in item.set

\* does prog[k..] match a prefix of s[j..] ?
RECURSIVE MatchHere(_, _, _, _)
MatchHere(prog, k, s, j) ==
    IF k > Len(prog) THEN TRUE
    ELSE IF prog[k].star THEN
        \/ MatchHere(prog, k + 1, s, j)
        \/ /\ j <= Len(s)
           /\ ItemAccepts(prog[k], s[j])
           /\ MatchHere(prog, k, s, j + 1)
    ELSE
        /\ j <= Len(s)
        /\ ItemAccepts(prog[k], s[j])
        /\ MatchHere(prog, k + 1, s, j + 1)

\* Regexp.MatchString / Regexp.Match: unanchored, a match anywhere in s
MatchString(prog, s) == \E j \in 1..(Len(s) + 1) : MatchHere(prog, 1, s, j)

(***************************************************************************)
(* Rule model (config.RequestRule, config.ResponseSpec, ResponseDelay) and *)
(* requests (http.Request as the handler reads it)                         *)
(***************************************************************************)
EmptyMap == <<>>

\* the entries of a Go map are visited in an unspecified order; ord is the
\* order a particular run happens to use, given as a sequence of all names
KeysInOrder(m, ord) == SelectSeq(ord, LAMBDA n : n \in DOMAIN m)

\* http.Header.Get: the first value stored under the canonical form of the
\* name, "" when there is none
HeaderGet(hdr, name) ==
    LET hits == {i \in 1..Len(hdr) :
                    CanonicalHeaderKey(hdr[i].name) = CanonicalHeaderKey(name)}
    IN  IF hits = {} THEN <<>>
        ELSE hdr[CHOOSE i \in hits : \A k \in hits : i <= k].value

\* url.Values.Get: the first value of the parameter, "" when there is none
QueryGet(query, name) ==
    LET hits == {i \in 1..Len(query) : query[i].name = name}
    IN  IF hits = {} THEN <<>>
        ELSE query[CHOOSE i \in hits : \A k \in hits : i <= k].value

\* a variant that drops the error of the read
ReadAllUnchecked(body) == [data |-> body.data, err |-> FALSE]

\* io.ReadAll on the request body: the bytes left in the stream, and
\* whether the read failed
ReadAll(body) == [data |-> body.data, err |-> body.failing]

\* io.NopCloser(strings.NewReader(string(data))): a fresh readable stream
NewReader(data) == [data |-> data, failing |-> FALSE]

\* what is left of a stream whose read failed
Drained(body) == [data |-> <<>>, failing |-> TRUE]

(***************************************************************************)
(* Predicate matchers                                                      *)
(***************************************************************************)
\* a variant in which a header pattern that does not compile fails the entry
headerEntryStrict(headerPattern, requestValue) ==
    LET pattern == Compile(headerPattern)
    IN  IF ~pattern.ok THEN FALSE
        ELSE MatchString(pattern.prog, requestValue)

\* the body of the loop of matchesHeaders: does one entry of the rule's
\* header patterns accept the request's value
headerEntryMatches(headerPattern, requestValue) ==
    LET pattern == Compile(headerPattern)
    IN  IF ~pattern.ok
        THEN requestValue = headerPattern    \* invalid pattern: exact match
        ELSE MatchString(pattern.prog, requestValue)

\* a variant that returns after the first entry visited
HeadersLoopFirst(keys, i, ruleHeaders, requestHeaders) ==
    IF i > Len(keys) THEN TRUE
    ELSE headerEntryMatches(ruleHeaders[keys[i]], HeaderGet(requestHeaders, keys[i]))

RECURSIVE HeadersLoop(_, _, _, _)
HeadersLoop(keys, i, ruleHeaders, requestHeaders) ==
    IF i > Len(keys) THEN TRUE
    ELSE IF ~headerEntryMatches(ruleHeaders[keys[i]], HeaderGet(requestHeaders, keys[i]))
         THEN FALSE
         ELSE HeadersLoop(keys, i + 1, ruleHeaders, requestHeaders)

\* a variant in which a rule without header patterns accepts only requests
\* without headers
matchesHeadersNone(ruleHeaders, requestHeaders, ord) ==
    IF Cardinality(DOMAIN ruleHeaders) = 0 THEN requestHeaders = <<>>
    ELSE HeadersLoop(KeysInOrder(ruleHeaders, ord), 1, ruleHeaders, requestHeaders)

matchesHeaders(ruleHeaders, requestHeaders, ord) ==
    IF Cardinality(DOMAIN ruleHeaders) = 0 THEN TRUE
    ELSE HeadersLoop(KeysInOrder(ruleHeaders, ord), 1, ruleHeaders, requestHeaders)

\* a variant in which an empty value satisfies no entry
paramEntryNonEmpty(paramPattern, requestValue) ==
    LET pattern == Compile(paramPattern)
    IN  IF requestValue = <<>> THEN FALSE
        ELSE IF ~pattern.ok THEN requestValue = paramPattern
        ELSE MatchString(pattern.prog, requestValue)

\* the body of the loop of matchesQueryParams
paramEntryMatches(paramPattern, requestValue) ==
    LET pattern == Compile(paramPattern)
    IN  IF ~pattern.ok
        THEN requestValue = paramPattern     \* invalid pattern: exact match
        ELSE MatchString(pattern.prog, requestValue)

RECURSIVE ParamsLoop(_, _, _, _)
ParamsLoop(keys, i, ruleParams, requestParams) ==
    IF i > Len(keys) THEN TRUE
    ELSE IF ~paramEntryMatches(ruleParams[keys[i]], QueryGet(requestParams, keys[i]))
         THEN FALSE
         ELSE ParamsLoop(keys, i + 1, ruleParams, requestParams)

\* a variant that rejects a request with a parameter the rule does not list
matchesQueryParamsStrict(ruleParams, requestParams, ord) ==
    IF Cardinality(DOMAIN ruleParams) = 0 THEN TRUE
    ELSE IF \E i \in 1..Len(requestParams) : requestParams[i].name \notin DOMAIN ruleParams
         THEN FALSE
    ELSE ParamsLoop(KeysInOrder(ruleParams, ord), 1, ruleParams, requestParams)

matchesQueryParams(ruleParams, requestParams, ord) ==
    IF Cardinality(DOMAIN ruleParams) = 0 THEN TRUE
    ELSE ParamsLoop(KeysInOrder(ruleParams, ord), 1, ruleParams, requestParams)

\* a variant in which a body pattern that does not compile is compared as text
matchesBodyExact(ruleBody, body) ==
    IF ruleBody = <<>> THEN [res |-> TRUE, Body |-> body]
    ELSE LET rd == ReadAll(body)
         IN  IF rd.err THEN [res |-> FALSE, Body |-> Drained(body)]
             ELSE LET c == Compile(ruleBody)
                  IN  IF ~c.ok THEN [res |-> rd.data = ruleBody, Body |-> NewReader(rd.data)]
                      ELSE [res |-> MatchString(c.prog, rd.data),
                            Body |-> NewReader(rd.data)]

\* a variant that leaves the body stream at its end after reading it
matchesBodyNoRestore(ruleBody, body) ==
    IF ruleBody = <<>> THEN [res |-> TRUE, Body |-> body]
    ELSE LET rd == ReadAll(body)
         IN  IF rd.err THEN [res |-> FALSE, Body |-> Drained(body)]
             ELSE LET c == Compile(ruleBody)
                  IN  IF ~c.ok THEN [res |-> FALSE, Body |-> NewReader(<<>>)]
                      ELSE [res |-> MatchString(c.prog, rd.data),
                            Body |-> NewReader(<<>>)]

\* the result of the body predicate and the body stream it leaves behind
matchesBody(ruleBody, body) ==
    IF ruleBody = <<>> THEN [res |-> TRUE, Body |-> body]
    ELSE LET rd == ReadAll(body)
         IN  IF rd.err THEN [res |-> FALSE, Body |-> Drained(body)]
             ELSE LET c == Compile(ruleBody)
                  IN  IF ~c.ok THEN [res |-> FALSE, Body |-> NewReader(rd.data)]
                      ELSE [res |-> MatchString(c.prog, rd.data),
                            Body |-> NewReader(rd.data)]

(***************************************************************************)
(* Rule selector                                                           *)
(***************************************************************************)
\* a variant comparing paths without regard to letter case
tryRuleFoldPath(rule, r, body, ord) ==
    IF ToUpper(rule.Path) # ToUpper(r.Path) THEN [res |-> FALSE, Body |-> body]
    ELSE IF rule.Method # ToUpper(r.Method) THEN [res |-> FALSE, Body |-> body]
    ELSE IF ~matchesHeaders(rule.Headers, r.Header, ord) THEN [res |-> FALSE, Body |-> body]
    ELSE IF ~matchesQueryParams(rule.QueryParams, r.Query, ord)
         THEN [res |-> FALSE, Body |-> body]
    ELSE matchesBody(rule.Body, body)

\* a variant comparing the request method as sent, not upper-cased
tryRuleRawMethod(rule, r, body, ord) ==
    IF rule.Path # r.Path THEN [res |-> FALSE, Body |-> body]
    ELSE IF rule.Method # r.Method THEN [res |-> FALSE, Body |-> body]
    ELSE IF ~matchesHeaders(rule.Headers, r.Header, ord) THEN [res |-> FALSE, Body |-> body]
    ELSE IF ~matchesQueryParams(rule.QueryParams, r.Query, ord)
         THEN [res |-> FALSE, Body |-> body]
    ELSE matchesBody(rule.Body, body)

\* the body of the loop of findMatchingRule: the checks made on one rule,
\* and the body stream they leave behind
tryRule(rule, r, body, ord) ==
    IF rule.Path # r.Path THEN [res |-> FALSE, Body |-> body]
    ELSE IF rule.Method # ToUpper(r.Method) THEN [res |-> FALSE, Body |-> body]
    ELSE IF ~matchesHeaders(rule.Headers, r.Header, ord) THEN [res |-> FALSE, Body |-> body]
    ELSE IF ~matchesQueryParams(rule.QueryParams, r.Query, ord)
         THEN [res |-> FALSE, Body |-> body]
    ELSE matchesBody(rule.Body, body)

\* a variant that keeps scanning after a match: the last match wins
RECURSIVE RuleLoopLast(_, _, _, _, _)
RuleLoopLast(requests, i, r, body, ord) ==
    IF i > Len(requests) THEN [rule |-> 0, Body |-> body]
    ELSE LET t == tryRule(requests[i], r, body, ord)
             rest == RuleLoopLast(requests, i + 1, r, t.Body, ord)
         IN  IF rest.rule # 0 THEN rest
             ELSE IF t.res THEN [rule |-> i, Body |-> t.Body]
             ELSE rest

\* the loop of findMatchingRule from rule i on; rule 0 stands for nil.
\* The body stream is threaded through the rules that read it.
RECURSIVE RuleLoop(_, _, _, _, _)
RuleLoop(requests, i, r, body, ord) ==
    IF i > Len(requests) THEN [rule |-> 0, Body |-> body]
    ELSE LET t == tryRule(requests[i], r, body, ord)
         IN  IF ~t.res THEN RuleLoop(requests, i + 1, r, t.Body, ord)
             ELSE [rule |-> i, Body |-> t.Body]

findMatchingRule(requests, r, ord) == RuleLoop(requests, 1, r, r.Body, ord)

(***************************************************************************)
(* Response writer: the calls made on the http.ResponseWriter, in order    *)
(***************************************************************************)
SetCall(key, value) == [call |-> "Set", key |-> CanonicalHeaderKey(key), value |-> value]
WriteHeaderCall(code) == [call |-> "WriteHeader", code |-> code]
WriteCall(data) == [call |-> "Write", data |-> data]

\* the status code the writer has committed, 0 when none
RECURSIVE StatusOf(_)
StatusOf(calls) ==
    IF calls = <<>> THEN 0
    ELSE LET c == calls[Len(calls)]
             before == StatusOf(SubSeq(calls, 1, Len(calls) - 1))
         IN  IF before # 0 THEN before
             ELSE IF c.call = "WriteHeader" THEN c.code
             ELSE IF c.call = "Write" THEN 200
             ELSE 0

\* the body bytes written so far
RECURSIVE BodyOf(_)
BodyOf(calls) ==
    IF calls = <<>> THEN <<>>
    ELSE LET c == calls[Len(calls)]
             before == BodyOf(SubSeq(calls, 1, Len(calls) - 1))
         IN  IF c.call = "Write" THEN before \o c.data ELSE before

\* the response headers after the calls: Header().Set replaces the value
\* stored under the canonical name, so the last Set of a name stands
FinalHeaders(calls) ==
    LET sets == {i \in 1..Len(calls) : calls[i].call = "Set"}
        last(k) == CHOOSE i \in sets :
                      /\ calls[i].key = k
                      /\ \A j \in sets : calls[j].key = k => j <= i
    IN  [k \in {calls[i].key : i \in sets} |-> calls[last(k)].value]

\* http.NotFound: http.Error(w, "404 page not found", 404)
txtPlain == <<"t","e","x","t","/","p","l","a","i","n",";"," ",
              "c","h","a","r","s","e","t","=","u","t","f","-","8">>
txtNosniff == <<"n","o","s","n","i","f","f">>
txtContentType == <<"C","o","n","t","e","n","t","-","T","y","p","e">>
txtXCTO == <<"X","-","C","o","n","t","e","n","t","-","T","y","p","e","-",
             "O","p","t","i","o","n","s">>
txt404 == <<"4","0","4"," ","p","a","g","e"," ","n","o","t"," ",
            "f","o","u","n","d","\n">>
StatusNotFound == 404

\* a variant that only sets the status
NotFoundBare == << WriteHeaderCall(StatusNotFound) >>

NotFound == << SetCall(txtContentType, txtPlain),
               SetCall(txtXCTO, txtNosniff),
               WriteHeaderCall(StatusNotFound),
               WriteCall(txt404) >>

\* json.Marshal of the structured body values of the model: a one-entry
\* object of strings is braced, a one-element list of a string is
\* bracketed, and a NaN number cannot be encoded
Quote(s) == <<"\"">> \o s \o <<"\"">>
Marshal(v) ==
    IF v.kind = "nan" THEN [err |-> TRUE, data |-> <<>>]
    ELSE IF v.kind = "object"
         THEN [err |-> FALSE,
               data |-> <<"{">> \o Quote(v.key) \o <<":">> \o Quote(v.val) \o <<"}">>]
    ELSE [err |-> FALSE, data |-> <<"[">> \o Quote(v.val) \o <<"]">>]

\* a variant that serializes every body, strings included, as JSON
writeBodyAlwaysJSON(body) ==
    LET m == IF body.kind = "string"
             THEN [err |-> FALSE, data |-> Quote(body.val)]
             ELSE Marshal(body)
    IN  IF m.err THEN [err |-> "failed to marshal JSON", calls |-> <<>>]
        ELSE [err |-> "", calls |-> <<WriteCall(m.data)>>]

\* writeBody: the Write call it makes (none when marshalling fails) and the
\* error it returns, "" for nil; the test writer's Write does not fail
writeBody(body) ==
    IF body.kind = "string" THEN [err |-> "", calls |-> <<WriteCall(body.val)>>]
    ELSE LET m == Marshal(body)
         IN  IF m.err THEN [err |-> "failed to marshal JSON", calls |-> <<>>]
             ELSE [err |-> "", calls |-> <<WriteCall(m.data)>>]

\* a variant whose Write keeps the data for the log and does not pass it on
RECURSIVE ThroughBuffered(_, _)
ThroughBuffered(lw, calls) ==
    IF lw = Nil \/ calls = <<>> THEN lw
    ELSE LET c == Head(calls)
             next == IF c.call = "WriteHeader"
                     THEN [lw EXCEPT !.statusCode = c.code, !.under = Append(@, c)]
                     ELSE IF c.call = "Write"
                     THEN [lw EXCEPT !.body = @ \o c.data]
                     ELSE [lw EXCEPT !.under = Append(@, c)]
         IN  ThroughBuffered(next, Tail(calls))

\* loggingResponseWriter: WriteHeader records the code and Write copies
\* the data before each passes the call on to the wrapped writer;
\* Header() is the wrapped writer's own
RECURSIVE Through(_, _)
Through(lw, calls) ==
    IF lw = Nil \/ calls = <<>> THEN lw
    ELSE LET c == Head(calls)
             next == IF c.call = "WriteHeader"
                     THEN [lw EXCEPT !.statusCode = c.code, !.under = Append(@, c)]
                     ELSE IF c.call = "Write"
                     THEN [lw EXCEPT !.body = @ \o c.data, !.under = Append(@, c)]
                     ELSE [lw EXCEPT !.under = Append(@, c)]
         IN  Through(next, Tail(calls))

(***************************************************************************)
(* State of one MockHandler serving NumReqs requests                       *)
(***************************************************************************)
VARIABLES
    config,     \* h.config.Requests: the ordered rule list
    randMu,     \* h.randMu: 0 when free, else the request holding it
    pc,         \* where each request's ServeHTTP call stands
    req,        \* the http.Request of each call
    cancelled,  \* whether r.Context().Done() is closed
    sel,        \* index of the rule findMatchingRule returned, 0 for nil
    ms,         \* the delay calculateDelay computed, in milliseconds
    elapsed,    \* milliseconds since the delay timer was started
    todo,       \* response headers of the rule not yet set
    out,        \* the calls made on the request's ResponseWriter
    outcome,    \* how the call ended: notfound, written, aborted
    printed,    \* what each call printed on standard output (fmt.Printf)
    mw,         \* the LoggingMiddleware call around each request, Nil without
    load        \* config.Load: the stage reached, c.Server.Port and the error

vars == <<config, randMu, pc, req, cancelled, sel, ms, elapsed, todo, out, outcome,
          printed, mw, load>>

\* all orders in which the entries of the rules' pattern maps can be visited
Perms(S) ==
    {f \in [1..Cardinality(S) -> S] : \A i, j \in 1..Cardinality(S) : f[i] = f[j] => i = j}

MapKeys(requests) ==
    UNION {DOMAIN requests[i].Headers \cup DOMAIN requests[i].QueryParams :
              i \in 1..Len(requests)}

\* a request is handed to the handler
Accept(r, q) ==
    /\ pc[r] = "idle"
    /\ req' = [req EXCEPT ![r] = q]
    /\ pc' = [pc EXCEPT ![r] = "serve"]
    /\ UNCHANGED <<config, randMu, cancelled, sel, ms, elapsed, todo, out, outcome,
                 printed, mw, load>>

\* a variant whose calculateDelay takes the lock for every delay
ServeHTTPAlwaysLocks(r) ==
    /\ pc[r] = "serve"
    /\ \E ord \in Perms(MapKeys(config)) :
         LET m == findMatchingRule(config, req[r], ord)
         IN  /\ sel' = [sel EXCEPT ![r] = m.rule]
             /\ req' = [req EXCEPT ![r].Body = m.Body]
             /\ IF m.rule = 0
                THEN /\ out' = [out EXCEPT ![r] = @ \o NotFound]
                     /\ mw' = [mw EXCEPT ![r] = Through(@, NotFound)]
                     /\ pc' = [pc EXCEPT ![r] = "done"]
                     /\ outcome' = [outcome EXCEPT ![r] = "notfound"]
                     /\ UNCHANGED <<ms, todo>>
                ELSE LET rule == config[m.rule]
                         delay == rule.ResponseDelay
                     IN  /\ UNCHANGED <<out, outcome, mw>>
                         /\ IF delay # Nil
                            THEN /\ ms' = [ms EXCEPT ![r] = delay.Min]
                                 /\ pc' = [pc EXCEPT ![r] = "lock"]
                                 /\ UNCHANGED todo
                            ELSE /\ pc' = [pc EXCEPT ![r] = "headers"]
                                 /\ todo' = [todo EXCEPT ![r] = DOMAIN rule.Response.Headers]
                                 /\ UNCHANGED ms
    /\ UNCHANGED <<config, randMu, cancelled, elapsed, printed, load>>

(* The application's server (App.setupServer): a ServeMux with the health *)
(* endpoint on /health and the mock handler, wrapped in LoggingMiddleware,  *)
(* on /                                                                     *)
pathHealth == <<"/","h","e","a","l","t","h">>
txtOK == <<"O","K">>

\* the handler registered on /health
Health == << WriteHeaderCall(200), WriteCall(txtOK) >>

\* LoggingMiddleware before next.ServeHTTP: the request body is read (the
\* error of the read is dropped) and replaced by a reader over the bytes
\* read, and the response writer is wrapped
Wrapped(body) ==
    [statusCode |-> 200, body |-> <<>>, under |-> <<>>,
     requestBody |-> ReadAll(body).data, logged |-> FALSE]

\* the server accepts a request and calls the mux
Arrive(r, q) ==
    /\ pc[r] = "idle"
    /\ req' = [req EXCEPT ![r] = q]
    /\ pc' = [pc EXCEPT ![r] = "mux"]
    /\ UNCHANGED <<config, randMu, cancelled, sel, ms, elapsed, todo, out, outcome,
                   printed, mw, load>>

\* a variant whose health endpoint is registered for GET only
MuxHealthGetOnly(r) ==
    /\ pc[r] = "mux"
    /\ IF req[r].Path = pathHealth /\ req[r].Method = <<"G","E","T">>
       THEN /\ out' = [out EXCEPT ![r] = @ \o Health]
            /\ pc' = [pc EXCEPT ![r] = "done"]
            /\ outcome' = [outcome EXCEPT ![r] = "health"]
            /\ UNCHANGED <<req, mw>>
       ELSE /\ mw' = [mw EXCEPT ![r] = Wrapped(req[r].Body)]
            /\ req' = [req EXCEPT ![r].Body = NewReader(ReadAll(@).data)]
            /\ pc' = [pc EXCEPT ![r] = "serve"]
            /\ UNCHANGED <<out, outcome>>
    /\ UNCHANGED <<config, randMu, cancelled, sel, ms, elapsed, todo, printed, load>>

\* ServeMux.ServeHTTP: the pattern /health is the handler of that very
\* path, the pattern / of every other path (the paths of the model are
\* clean, so the mux redirects none); the health handler answers at once,
\* the middleware prepares the call of the mock handler
Mux(r) ==
    /\ pc[r] = "mux"
    /\ IF req[r].Path = pathHealth
       THEN /\ out' = [out EXCEPT ![r] = @ \o Health]
            /\ pc' = [pc EXCEPT ![r] = "done"]
            /\ outcome' = [outcome EXCEPT ![r] = "health"]
            /\ UNCHANGED <<req, mw>>
       ELSE /\ mw' = [mw EXCEPT ![r] = Wrapped(req[r].Body)]
            /\ req' = [req EXCEPT ![r].Body = NewReader(ReadAll(@).data)]
            /\ pc' = [pc EXCEPT ![r] = "serve"]
            /\ UNCHANGED <<out, outcome>>
    /\ UNCHANGED <<config, randMu, cancelled, sel, ms, elapsed, todo, printed, load>>

\* the text logged for a body, "(empty)" when there is none
LogBody(data) == IF data = <<>> THEN <<"(","e","m","p","t","y",")">> ELSE data

\* LoggingMiddleware after next.ServeHTTP has returned: log.Printf of the
\* request and of the response captured by the wrapper
LogResponse(r) ==
    /\ pc[r] = "done"
    /\ mw[r] # Nil
    /\ ~mw[r].logged
    /\ printed' = [printed EXCEPT ![r] =
           Append(@, [text |-> "HTTP REQUEST", Method |-> req[r].Method,
                      RequestBody |-> LogBody(mw[r].requestBody),
                      Status |-> mw[r].statusCode,
                      Headers |-> FinalHeaders(mw[r].under),
                      Body |-> LogBody(mw[r].body)])]
    /\ mw' = [mw EXCEPT ![r].logged = TRUE]
    /\ UNCHANGED <<config, randMu, pc, req, cancelled, sel, ms, elapsed, todo, out,
                   outcome, load>>

\* ServeHTTP up to the first point where it can block or write: rule
\* selection, the not-found response, and calculateDelay's ms := delay.Min
ServeHTTP(r) ==
    /\ pc[r] = "serve"
    /\ \E ord \in Perms(MapKeys(config)) :
         LET m == findMatchingRule(config, req[r], ord)
         IN  /\ sel' = [sel EXCEPT ![r] = m.rule]
             /\ req' = [req EXCEPT ![r].Body = m.Body]
             /\ IF m.rule = 0
                THEN /\ out' = [out EXCEPT ![r] = @ \o NotFound]
                     /\ mw' = [mw EXCEPT ![r] = Through(@, NotFound)]
                     /\ pc' = [pc EXCEPT ![r] = "done"]
                     /\ outcome' = [outcome EXCEPT ![r] = "notfound"]
                     /\ UNCHANGED <<ms, todo>>
                ELSE LET rule == config[m.rule]
                         delay == rule.ResponseDelay
                     IN  /\ UNCHANGED <<out, outcome, mw>>
                         /\ IF delay # Nil
                            THEN /\ ms' = [ms EXCEPT ![r] = delay.Min]
                                 /\ pc' = [pc EXCEPT ![r] =
                                        IF delay.Max > delay.Min THEN "lock" ELSE "select"]
                                 /\ UNCHANGED todo
                            ELSE /\ pc' = [pc EXCEPT ![r] = "headers"]
                                 /\ todo' = [todo EXCEPT ![r] = DOMAIN rule.Response.Headers]
                                 /\ UNCHANGED ms
    /\ UNCHANGED <<config, randMu, cancelled, elapsed, printed, load>>

\* a variant that does not wait for the mutex to be free
LockNoWait(r) ==
    /\ pc[r] = "lock"
    /\ randMu' = r
    /\ pc' = [pc EXCEPT ![r] = "draw"]
    /\ UNCHANGED <<config, req, cancelled, sel, ms, elapsed, todo, out, outcome,
                 printed, mw, load>>

\* calculateDelay: h.randMu.Lock()
Lock(r) ==
    /\ pc[r] = "lock"
    /\ randMu = 0
    /\ randMu' = r
    /\ pc' = [pc EXCEPT ![r] = "draw"]
    /\ UNCHANGED <<config, req, cancelled, sel, ms, elapsed, todo, out, outcome,
                 printed, mw, load>>

\* a variant that draws from Intn(delay.Max-delay.Min): Max is never drawn
DrawBelowMax(r) ==
    /\ pc[r] = "draw"
    /\ LET delay == config[sel[r]].ResponseDelay
       IN  \E n \in 0..(delay.Max - delay.Min - 1) :
              ms' = [ms EXCEPT ![r] = delay.Min + n]
    /\ pc' = [pc EXCEPT ![r] = "unlock"]
    /\ UNCHANGED <<config, randMu, req, cancelled, sel, elapsed, todo, out, outcome,
                 printed, mw, load>>

\* calculateDelay: ms = delay.Min + h.rand.Intn(delay.Max-delay.Min+1)
Draw(r) ==
    /\ pc[r] = "draw"
    /\ LET delay == config[sel[r]].ResponseDelay
       IN  \E n \in 0..(delay.Max - delay.Min) :
              ms' = [ms EXCEPT ![r] = delay.Min + n]
    /\ pc' = [pc EXCEPT ![r] = "unlock"]
    /\ UNCHANGED <<config, randMu, req, cancelled, sel, elapsed, todo, out, outcome,
                 printed, mw, load>>

\* a variant that returns from calculateDelay without releasing the mutex
UnlockForgotten(r) ==
    /\ pc[r] = "unlock"
    /\ pc' = [pc EXCEPT ![r] = "select"]
    /\ UNCHANGED <<config, randMu, req, cancelled, sel, ms, elapsed, todo, out, outcome,
                 printed, mw, load>>

\* calculateDelay: h.randMu.Unlock(); writeResponse then evaluates
\* time.After(duration), which starts the timer
Unlock(r) ==
    /\ pc[r] = "unlock"
    /\ randMu' = 0
    /\ pc' = [pc EXCEPT ![r] = "select"]
    /\ UNCHANGED <<config, req, cancelled, sel, ms, elapsed, todo, out, outcome,
                 printed, mw, load>>

TimerReady(r) == elapsed[r] >= ms[r]

\* a millisecond passes while the timer runs and no goroutine is woken by it
Tick(r) ==
    /\ pc[r] \in {"select", "parked"}
    /\ elapsed[r] < ms[r]
    /\ pc[r] = "parked" => elapsed[r] + 1 < ms[r]
    /\ elapsed' = [elapsed EXCEPT ![r] = @ + 1]
    /\ UNCHANGED <<config, randMu, pc, req, cancelled, sel, ms, todo, out, outcome,
                 printed, mw, load>>

\* the request's context is cancelled (client gone, deadline) while the
\* handler is not suspended in the select
Cancel(r) ==
    /\ pc[r] \notin {"idle", "done", "parked"}
    /\ ~cancelled[r]
    /\ cancelled' = [cancelled EXCEPT ![r] = TRUE]
    /\ UNCHANGED <<config, randMu, pc, req, sel, ms, elapsed, todo, out, outcome,
                 printed, mw, load>>

\* a variant that goes on without the timer having expired
SelectTimerEarly(r) ==
    /\ pc[r] = "select"
    /\ pc' = [pc EXCEPT ![r] = "headers"]
    /\ todo' = [todo EXCEPT ![r] = DOMAIN config[sel[r]].Response.Headers]
    /\ UNCHANGED <<config, randMu, req, cancelled, sel, ms, elapsed, out, outcome,
                 printed, mw, load>>

\* select finds the timer channel ready and takes case <-time.After(duration)
SelectTimer(r) ==
    /\ pc[r] = "select"
    /\ TimerReady(r)
    /\ pc' = [pc EXCEPT ![r] = "headers"]
    /\ todo' = [todo EXCEPT ![r] = DOMAIN config[sel[r]].Response.Headers]
    /\ UNCHANGED <<config, randMu, req, cancelled, sel, ms, elapsed, out, outcome,
                 printed, mw, load>>

\* select finds Done closed and takes case <-r.Context().Done(): return
SelectDone(r) ==
    /\ pc[r] = "select"
    /\ cancelled[r]
    /\ pc' = [pc EXCEPT ![r] = "done"]
    /\ outcome' = [outcome EXCEPT ![r] = "aborted"]
    /\ UNCHANGED <<config, randMu, req, cancelled, sel, ms, elapsed, todo, out,
                 printed, mw, load>>

\* select finds no channel ready and suspends the handler on both
Park(r) ==
    /\ pc[r] = "select"
    /\ ~TimerReady(r)
    /\ ~cancelled[r]
    /\ pc' = [pc EXCEPT ![r] = "parked"]
    /\ UNCHANGED <<config, randMu, req, cancelled, sel, ms, elapsed, todo, out, outcome,
                 printed, mw, load>>

\* the timer expires while the handler is suspended: it is woken on the
\* timer case
TimerFire(r) ==
    /\ pc[r] = "parked"
    /\ elapsed[r] + 1 >= ms[r]
    /\ elapsed' = [elapsed EXCEPT ![r] = @ + 1]
    /\ pc' = [pc EXCEPT ![r] = "headers"]
    /\ todo' = [todo EXCEPT ![r] = DOMAIN config[sel[r]].Response.Headers]
    /\ UNCHANGED <<config, randMu, req, cancelled, sel, ms, out, outcome, printed, mw, load>>

\* a variant in which the requests share one context: cancelling wakes
\* every suspended handler
CancelParkedAll(r) ==
    /\ pc[r] = "parked"
    /\ cancelled' = [q \in Reqs |-> IF pc[q] = "parked" THEN TRUE ELSE cancelled[q]]
    /\ pc' = [q \in Reqs |-> IF pc[q] = "parked" THEN "done" ELSE pc[q]]
    /\ outcome' = [q \in Reqs |-> IF pc[q] = "parked" THEN "aborted" ELSE outcome[q]]
    /\ UNCHANGED <<config, randMu, req, sel, ms, elapsed, todo, out, printed, mw, load>>

\* a variant whose wait has no Done case: the handler sleeps on
CancelParkedIgnored(r) ==
    /\ pc[r] = "parked"
    /\ ~cancelled[r]
    /\ cancelled' = [cancelled EXCEPT ![r] = TRUE]
    /\ UNCHANGED <<config, randMu, pc, req, sel, ms, elapsed, todo, out, outcome,
                 printed, mw, load>>

\* the context is cancelled while the handler is suspended: it is woken on
\* the Done case and returns
CancelParked(r) ==
    /\ pc[r] = "parked"
    /\ cancelled' = [cancelled EXCEPT ![r] = TRUE]
    /\ pc' = [pc EXCEPT ![r] = "done"]
    /\ outcome' = [outcome EXCEPT ![r] = "aborted"]
    /\ UNCHANGED <<config, randMu, req, sel, ms, elapsed, todo, out, printed, mw, load>>

\* one iteration of: for key, value := range rule.Response.Headers
SetHeader(r) ==
    /\ pc[r] = "headers"
    /\ \E key \in todo[r] :
         /\ out' = [out EXCEPT ![r] =
                Append(@, SetCall(key, config[sel[r]].Response.Headers[key]))]
         /\ mw' = [mw EXCEPT ![r] =
                Through(@, <<SetCall(key, config[sel[r]].Response.Headers[key])>>)]
         /\ todo' = [todo EXCEPT ![r] = @ \ {key}]
    /\ UNCHANGED <<config, randMu, pc, req, cancelled, sel, ms, elapsed, outcome, printed, load>>

\* a variant that writes the status code before the header loop has run
WriteHeaderEarly(r) ==
    /\ pc[r] = "headers"
    /\ out' = [out EXCEPT ![r] = Append(@, WriteHeaderCall(config[sel[r]].Response.StatusCode))]
    /\ mw' = [mw EXCEPT ![r] =
           Through(@, <<WriteHeaderCall(config[sel[r]].Response.StatusCode)>>)]
    /\ todo' = [todo EXCEPT ![r] = {}]
    /\ IF config[sel[r]].Response.Body = Nil
       THEN /\ pc' = [pc EXCEPT ![r] = "done"]
            /\ outcome' = [outcome EXCEPT ![r] = "written"]
       ELSE /\ pc' = [pc EXCEPT ![r] = "body"]
            /\ UNCHANGED outcome
    /\ UNCHANGED <<config, randMu, req, cancelled, sel, ms, elapsed, printed, load>>

\* w.WriteHeader(rule.Response.StatusCode); return when the body is nil
WriteHeader(r) ==
    /\ pc[r] = "headers"
    /\ todo[r] = {}
    /\ out' = [out EXCEPT ![r] = Append(@, WriteHeaderCall(config[sel[r]].Response.StatusCode))]
    /\ mw' = [mw EXCEPT ![r] =
           Through(@, <<WriteHeaderCall(config[sel[r]].Response.StatusCode)>>)]
    /\ IF config[sel[r]].Response.Body = Nil
       THEN /\ pc' = [pc EXCEPT ![r] = "done"]
            /\ outcome' = [outcome EXCEPT ![r] = "written"]
       ELSE /\ pc' = [pc EXCEPT ![r] = "body"]
            /\ UNCHANGED outcome
    /\ UNCHANGED <<config, randMu, req, cancelled, sel, ms, elapsed, todo, printed, load>>

\* fmt.Printf("Error writing response body: %v\n", err)
ErrorLine(err) == [text |-> "Error writing response body", err |-> err]

\* a variant that keeps the serialized body in the rule for the next request
WriteBodyCaching(r) ==
    /\ pc[r] = "body"
    /\ LET w == writeBody(config[sel[r]].Response.Body)
       IN  /\ out' = [out EXCEPT ![r] = @ \o w.calls]
           /\ mw' = [mw EXCEPT ![r] = Through(@, w.calls)]
           /\ printed' = [printed EXCEPT ![r] =
                  IF w.err # "" THEN Append(@, ErrorLine(w.err)) ELSE @]
           /\ config' = IF w.err # "" THEN config
                        ELSE [config EXCEPT ![sel[r]].Response.Body =
                                 [kind |-> "string", val |-> w.calls[1].data]]
    /\ pc' = [pc EXCEPT ![r] = "done"]
    /\ outcome' = [outcome EXCEPT ![r] = "written"]
    /\ UNCHANGED <<randMu, req, cancelled, sel, ms, elapsed, todo, load>>

\* a variant that answers a failed serialization with an error page
WriteBodyErrorPage(r) ==
    /\ pc[r] = "body"
    /\ LET w == writeBody(config[sel[r]].Response.Body)
       IN  /\ out' = [out EXCEPT ![r] =
                  IF w.err # "" THEN @ \o <<WriteHeaderCall(500), WriteCall(<<"e","r","r">>)>>
                  ELSE @ \o w.calls]
           /\ mw' = [mw EXCEPT ![r] =
                  IF w.err # "" THEN Through(@, <<WriteHeaderCall(500), WriteCall(<<"e","r","r">>)>>)
                  ELSE Through(@, w.calls)]
           /\ printed' = [printed EXCEPT ![r] =
                  IF w.err # "" THEN Append(@, ErrorLine(w.err)) ELSE @]
    /\ pc' = [pc EXCEPT ![r] = "done"]
    /\ outcome' = [outcome EXCEPT ![r] = "written"]
    /\ UNCHANGED <<config, randMu, req, cancelled, sel, ms, elapsed, todo, load>>

\* h.writeBody(w, rule.Response.Body); an error is only printed
WriteBody(r) ==
    /\ pc[r] = "body"
    /\ LET w == writeBody(config[sel[r]].Response.Body)
       IN  /\ out' = [out EXCEPT ![r] = @ \o w.calls]
           /\ mw' = [mw EXCEPT ![r] = Through(@, w.calls)]
           /\ printed' = [printed EXCEPT ![r] =
                  IF w.err # "" THEN Append(@, ErrorLine(w.err)) ELSE @]
    /\ pc' = [pc EXCEPT ![r] = "done"]
    /\ outcome' = [outcome EXCEPT ![r] = "written"]
    /\ UNCHANGED <<config, randMu, req, cancelled, sel, ms, elapsed, todo, load>>

(***************************************************************************)
(* Configuration loading (config.go): defaults of the rules                *)
(***************************************************************************)
DefaultMethod == <<"G","E","T">>
DefaultStatusCode == 200

DefaultPort == 8080
MaxResponseDelayMs == 10000
MinStatusCode == 100
MaxStatusCode == 599

\* a variant that fills in a missing method but keeps the letter case of a
\* method that is given
setDefaultsRuleAsGiven(rule) ==
    [rule EXCEPT !.Method = IF @ = <<>> THEN DefaultMethod ELSE @,
                 !.Response.StatusCode = IF @ = 0 THEN DefaultStatusCode ELSE @]

\* the body of the loop of Config.setDefaults, for one rule
setDefaultsRule(rule) ==
    [rule EXCEPT !.Method = ToUpper(IF @ = <<>> THEN DefaultMethod ELSE @),
                 !.Response.StatusCode = IF @ = 0 THEN DefaultStatusCode ELSE @]

setDefaults(requests) == [i \in 1..Len(requests) |-> setDefaultsRule(requests[i])]

\* Config.setDefaults on c.Server.Port
setDefaultsPort(port) == IF port = 0 THEN DefaultPort ELSE port

\* a variant that rejects a delay whose max is the maximum allowed
validateDelayBelowMax(delay) ==
    IF delay.Min < 0 THEN "responseDelay min cannot be negative"
    ELSE IF delay.Max < 0 THEN "responseDelay max cannot be negative"
    ELSE IF delay.Min > delay.Max THEN "responseDelay min cannot exceed max"
    ELSE IF delay.Max >= MaxResponseDelayMs THEN "responseDelay max exceeds maximum allowed"
    ELSE ""

\* Config.validate: the checks on a rule's responseDelay; "" stands for no
\* error
validateDelay(delay) ==
    IF delay.Min < 0 THEN "responseDelay min cannot be negative"
    ELSE IF delay.Max < 0 THEN "responseDelay max cannot be negative"
    ELSE IF delay.Min > delay.Max THEN "responseDelay min cannot exceed max"
    ELSE IF delay.Max > MaxResponseDelayMs THEN "responseDelay max exceeds maximum allowed"
    ELSE ""

\* Config.validate: the body of the loop over the rules
validateRule(rule) ==
    IF rule.Path = <<>> THEN "path is required"
    ELSE IF rule.Method = <<>> THEN "method is required"
    ELSE IF rule.Response.StatusCode < MinStatusCode \/ rule.Response.StatusCode > MaxStatusCode
         THEN "invalid status code"
    ELSE IF rule.ResponseDelay # Nil THEN validateDelay(rule.ResponseDelay)
    ELSE ""

\* the loop of Config.validate from rule i on: the first error, "" for nil
RECURSIVE ValidateLoop(_, _)
ValidateLoop(requests, i) ==
    IF i > Len(requests) THEN ""
    ELSE IF validateRule(requests[i]) # "" THEN validateRule(requests[i])
    ELSE ValidateLoop(requests, i + 1)

validate(port, requests) ==
    IF port = 0 THEN "server port is required"
    ELSE ValidateLoop(requests, 1)

\* config.Load after yaml.Unmarshal: c.setDefaults()
SetDefaults ==
    /\ load.stage = "parsed"
    /\ config' = setDefaults(config)
    /\ load' = [load EXCEPT !.stage = "defaulted", !.Port = setDefaultsPort(@)]
    /\ UNCHANGED <<randMu, pc, req, cancelled, sel, ms, elapsed, todo, out, outcome,
                   printed, mw>>

\* config.Load: c.validate(); an error makes Load return no configuration
Validate ==
    /\ load.stage = "defaulted"
    /\ LET err == validate(load.Port, config)
       IN  load' = [load EXCEPT !.stage = IF err = "" THEN "loaded" ELSE "rejected",
                                !.err = err]
    /\ UNCHANGED <<config, randMu, pc, req, cancelled, sel, ms, elapsed, todo, out,
                   outcome, printed, mw>>

(***************************************************************************)
(* Inputs: the texts, rules and requests the model enumerates              *)
(***************************************************************************)
sGET == <<"G","E","T">>
sget == <<"g","e","t">>
sPOST == <<"P","O","S","T">>
pathA == <<"/","a">>
pathAUpper == <<"/","A">>
pathASlash == <<"/","a","/">>
pathB == <<"/","b">>
pathC == <<"/","c">>
nameXa == <<"x","a">>
nameXA == <<"X","A">>
nameQ == <<"q">>
nameP == <<"p">>
nameXb == <<"x","b">>
txtOk == <<"o","k">>
txtY == <<"y">>
txtZ == <<"z">>
StatusOK == 200
StatusCreated == 201

\* characters of the enumerated patterns and values
PatChars == {"a", ".", "*", "[", "]"}
Texts == SeqsUpTo(PatChars, MaxPatLen)

NoBody == [data |-> <<>>, failing |-> FALSE]

PlainResponse == [StatusCode |-> StatusOK, Headers |-> EmptyMap, Body |-> Nil]

\* a request as the handler receives it
Request(method, path, header, query, body) ==
    [Method |-> method, Path |-> path, Header |-> header, Query |-> query, Body |-> body]

\* a rule without response delay answering 200 with no headers and no body
MatchRule(path, method, headers, params, body) ==
    [Path |-> path, Method |-> method, Headers |-> headers, QueryParams |-> params,
     Body |-> body, ResponseDelay |-> Nil, Response |-> PlainResponse]

\* rule lists of 1..n rules drawn from a pool
RuleLists(pool, n) == SeqsUpTo(pool, n) \ {<<>>}

(* Concurrency: one rule with a delay and one without *)
Delays == {[Min |-> a, Max |-> b] : a \in 0..MaxDelay, b \in 0..MaxDelay} 

ValidDelays == {d \in Delays : d.Min <= d.Max}

DelayedRule(d) ==
    [Path |-> pathA, Method |-> sGET, Headers |-> EmptyMap, QueryParams |-> EmptyMap,
     Body |-> <<>>, ResponseDelay |-> d,
     Response |-> [StatusCode |-> StatusOK, Headers |-> (nameXa :> txtY),
                   Body |-> [kind |-> "string", val |-> txtOk]]]

PlainRule ==
    [Path |-> pathB, Method |-> sGET, Headers |-> EmptyMap, QueryParams |-> EmptyMap,
     Body |-> <<>>, ResponseDelay |-> Nil,
     Response |-> [StatusCode |-> StatusCreated,
                   Headers |-> (nameXa :> txtY) @@ (nameXA :> txtZ),
                   Body |-> [kind |-> "object", key |-> txtOk, val |-> txtY]]]

ServeConfigs == {<<DelayedRule(d), PlainRule>> : d \in ValidDelays}

ServeRequests ==
    {Request(sGET, p, <<>>, <<>>, NoBody) : p \in {pathA, pathB, pathC}}

(* Rule selection: lists of rules differing in path, method and headers *)
MaxRules == 2

SelectorRules ==
    {MatchRule(p, m, h, EmptyMap, <<>>) :
        p \in {pathA, pathAUpper, pathASlash},
        m \in {sGET, sget},
        h \in {EmptyMap, (nameXa :> <<"a">>)}}

SelectorRequests ==
    {Request(m, p, h, <<>>, NoBody) :
        m \in {sGET, sget, sPOST},
        p \in {pathA, pathAUpper, pathASlash},
        h \in {<<>>, <<[name |-> nameXA, value |-> <<"a">>]>>,
               <<[name |-> nameXA, value |-> <<"]">>]>>}}

(* Patterns: one rule with a single header, query or body pattern *)
HeaderRules == {MatchRule(pathA, sGET, (nameXa :> p), EmptyMap, <<>>) : p \in Texts}
HeaderRequests ==
    {Request(sGET, pathA, h, <<>>, NoBody) :
        h \in {<<>>} \cup {<<[name |-> nameXA, value |-> v]>> : v \in Texts}}

ParamRules == {MatchRule(pathA, sGET, EmptyMap, (nameQ :> p), <<>>) : p \in Texts}
ParamRequests ==
    {Request(sGET, pathA, <<>>, q, NoBody) :
        q \in {<<>>} \cup {<<[name |-> nameQ, value |-> v]>> : v \in Texts}}

BodyRules == {MatchRule(pathA, sGET, EmptyMap, EmptyMap, p) : p \in Texts}
BodyRequests ==
    {Request(sGET, pathA, <<>>, <<>>, [data |-> v, failing |-> f]) :
        v \in Texts, f \in BOOLEAN}

(* Lists of rules with body patterns, valid and not, with the same path   *)
(* and method, against bodies whose read succeeds or fails                 *)
BodyListRules ==
    {MatchRule(pathA, sGET, EmptyMap, EmptyMap, p) : p \in {<<>>, <<"a">>, <<"]">>, <<"[">>}}
BodyListRequests ==
    {Request(sGET, pathA, <<>>, <<>>, [data |-> v, failing |-> f]) :
        v \in {<<>>, <<"a">>, <<"]">>}, f \in BOOLEAN}

(* Pattern maps of two entries: a literal, a wildcard and a pattern that   *)
(* does not compile, against requests that carry each name or not, and a   *)
(* name the rule does not list                                             *)
PairPats == {<<"a">>, <<".", "*">>, <<"[">>}
PairValues == {<<>>, <<"a">>, <<"[">>}

\* the header lines or query parameters of a request: each name of names
\* absent or present with one of the values
RECURSIVE Carrying(_, _)
Carrying(names, values) ==
    IF names = <<>> THEN {<<>>}
    ELSE LET rest == Carrying(Tail(names), values)
         IN  rest \cup {<<[name |-> Head(names), value |-> v]>> \o q :
                           v \in values, q \in rest}

HeaderPairRules ==
    {MatchRule(pathA, sGET, (nameXa :> p1) @@ (nameXb :> p2), EmptyMap, <<>>) :
        p1 \in PairPats, p2 \in PairPats}
HeaderPairRequests ==
    {Request(sGET, pathA, h, <<>>, NoBody) :
        h \in Carrying(<<nameXA, nameXb, nameP>>, PairValues)}

ParamPairRules ==
    {MatchRule(pathA, sGET, EmptyMap, (nameQ :> p1) @@ (nameP :> p2), <<>>) :
        p1 \in PairPats, p2 \in PairPats}
ParamPairRequests ==
    {Request(sGET, pathA, <<>>, q, NoBody) :
        q \in Carrying(<<nameQ, nameP, nameXa>>, PairValues)}

(* A rule with no header, query or body condition, against requests with   *)
(* and without headers, query parameters and body                          *)
OpenRules == {MatchRule(pathA, sGET, EmptyMap, EmptyMap, <<>>)}
OpenRequests ==
    {Request(m, p, h, q, [data |-> v, failing |-> f]) :
        m \in {sGET, sPOST}, p \in {pathA, pathB},
        h \in Carrying(<<nameXA>>, PairValues),
        q \in Carrying(<<nameQ>>, PairValues),
        v \in PairValues, f \in BOOLEAN}

(***************************************************************************)
(* Specifications                                                          *)
(***************************************************************************)
\* a handler made by NewMockHandler over a configuration built in memory
Constructed == [stage |-> "constructed", Port |-> 0, err |-> ""]

NoRequest == Request(<<>>, <<>>, <<>>, <<>>, NoBody)

Idle ==
    /\ randMu = 0
    /\ cancelled = [r \in Reqs |-> FALSE]
    /\ sel = [r \in Reqs |-> 0]
    /\ ms = [r \in Reqs |-> 0]
    /\ elapsed = [r \in Reqs |-> 0]
    /\ todo = [r \in Reqs |-> {}]
    /\ out = [r \in Reqs |-> <<>>]
    /\ outcome = [r \in Reqs |-> "none"]
    /\ printed = [r \in Reqs |-> <<>>]
    /\ mw = [r \in Reqs |-> Nil]
    /\ load = Constructed

\* a handler constructed over a configuration, no request yet
Init ==
    /\ config \in ServeConfigs
    /\ pc = [r \in Reqs |-> "idle"]
    /\ req = [r \in Reqs |-> NoRequest]
    /\ Idle

Next ==
    \/ \E r \in Reqs, q \in ServeRequests : Accept(r, q)
    \/ \E r \in Reqs : ServeHTTP(r)
    \/ \E r \in Reqs : Lock(r)
    \/ \E r \in Reqs : Draw(r)
    \/ \E r \in Reqs : Unlock(r)
    \/ \E r \in Reqs : Tick(r)
    \/ \E r \in Reqs : Cancel(r)
    \/ \E r \in Reqs : SelectTimer(r)
    \/ \E r \in Reqs : SelectDone(r)
    \/ \E r \in Reqs : Park(r)
    \/ \E r \in Reqs : TimerFire(r)
    \/ \E r \in Reqs : CancelParked(r)
    \/ \E r \in Reqs : SetHeader(r)
    \/ \E r \in Reqs : WriteHeader(r)
    \/ \E r \in Reqs : WriteBody(r)

Spec == Init /\ [][Next]_vars

\* one request in the hands of ServeHTTP, over one family of matcher inputs
MatchInputs(lists, requests) ==
    /\ config \in lists
    /\ \E q \in requests : req = [r \in Reqs |-> IF r = 1 THEN q ELSE NoRequest]

InitMatch ==
    /\ pc = [r \in Reqs |-> IF r = 1 THEN "serve" ELSE "idle"]
    /\ Idle
    /\ \/ MatchInputs(RuleLists(SelectorRules, MaxRules), SelectorRequests)
       \/ MatchInputs(RuleLists(HeaderRules, 1), HeaderRequests)
       \/ MatchInputs(RuleLists(ParamRules, 1), ParamRequests)
       \/ MatchInputs(RuleLists(BodyRules, 1), BodyRequests)
       \/ MatchInputs(RuleLists(HeaderPairRules, 1), HeaderPairRequests)
       \/ MatchInputs(RuleLists(ParamPairRules, 1), ParamPairRequests)
       \/ MatchInputs(RuleLists(OpenRules, 1), OpenRequests)
       \/ MatchInputs(RuleLists(BodyListRules, MaxRules), BodyListRequests)

NextMatch == \E r \in Reqs : ServeHTTP(r)

SpecMatch == InitMatch /\ [][NextMatch]_vars

(* calculateDelay over delay ranges of up to MaxRange milliseconds: every  *)
(* request is for the one rule of the configuration, and the run ends when *)
(* calculateDelay has returned                                             *)
MaxRange == 3

RangeDelays == {[Min |-> a, Max |-> b] : a \in 0..MaxRange, b \in 0..MaxRange}

ValidRangeDelays == {d \in RangeDelays : d.Min <= d.Max}

InitDelay ==
    /\ config \in {<<DelayedRule(d)>> : d \in ValidRangeDelays}
    /\ pc = [r \in Reqs |-> "serve"]
    /\ req = [r \in Reqs |-> Request(sGET, pathA, <<>>, <<>>, NoBody)]
    /\ Idle

NextDelay ==
    \/ \E r \in Reqs : ServeHTTP(r)
    \/ \E r \in Reqs : Lock(r)
    \/ \E r \in Reqs : Draw(r)
    \/ \E r \in Reqs : Unlock(r)

SpecDelay == InitDelay /\ [][NextDelay]_vars

(* Response synthesis: one rule without delay whose response varies in    *)
(* status code, headers and kind of body; every request is for that rule   *)
ResponseBodies ==
    {Nil,
     [kind |-> "string", val |-> <<>>],
     [kind |-> "string", val |-> txtOk],
     [kind |-> "object", key |-> txtOk, val |-> txtY],
     [kind |-> "list", val |-> txtY],
     [kind |-> "nan"]}

ResponseHeaders ==
    {EmptyMap,
     (nameXa :> txtY),
     (nameXa :> txtY) @@ (nameXb :> txtZ),
     (nameXa :> txtY) @@ (nameXA :> txtZ)}

ResponseRules ==
    {[Path |-> pathA, Method |-> sGET, Headers |-> EmptyMap, QueryParams |-> EmptyMap,
      Body |-> <<>>, ResponseDelay |-> Nil,
      Response |-> [StatusCode |-> c, Headers |-> h, Body |-> b]] :
        c \in {StatusOK, StatusCreated}, h \in ResponseHeaders, b \in ResponseBodies}

InitWrite ==
    /\ config \in RuleLists(ResponseRules, 1)
    /\ pc = [r \in Reqs |-> "serve"]
    /\ req = [r \in Reqs |-> Request(sGET, pathA, <<>>, <<>>, NoBody)]
    /\ Idle

NextWrite ==
    \/ \E r \in Reqs : ServeHTTP(r)
    \/ \E r \in Reqs : SetHeader(r)
    \/ \E r \in Reqs : WriteHeader(r)
    \/ \E r \in Reqs : WriteBody(r)

SpecWrite == InitWrite /\ [][NextWrite]_vars

(* Configuration loading: a parsed configuration of one rule that varies  *)
(* in path, method, status code and delay, or of several rules of which    *)
(* some are not valid; the port is given or not                            *)
DelayEdges == {-1, 0, 1, MaxResponseDelayMs, MaxResponseDelayMs + 1}

StatusEdges == {0, MinStatusCode - 1, MinStatusCode, MaxStatusCode, MaxStatusCode + 1}

ParsedRule(path, method, code, delay) ==
    [Path |-> path, Method |-> method, Headers |-> EmptyMap, QueryParams |-> EmptyMap,
     Body |-> <<>>, ResponseDelay |-> delay,
     Response |-> [StatusCode |-> code, Headers |-> EmptyMap, Body |-> Nil]]

ParsedRules ==
    {ParsedRule(p, m, c, d) :
        p \in {<<>>, pathA}, m \in {<<>>, sget, sGET}, c \in StatusEdges,
        d \in {Nil} \cup {[Min |-> a, Max |-> b] : a \in DelayEdges, b \in DelayEdges}}

ParsedListRules ==
    {ParsedRule(pathA, sget, 0, Nil),
     ParsedRule(<<>>, sGET, StatusOK, Nil),
     ParsedRule(pathB, <<>>, StatusCreated, [Min |-> 1, Max |-> 0])}

InitLoad ==
    /\ config \in RuleLists(ParsedRules, 1) \cup RuleLists(ParsedListRules, MaxRules)
    /\ pc = [r \in Reqs |-> "idle"]
    /\ req = [r \in Reqs |-> NoRequest]
    /\ randMu = 0
    /\ cancelled = [r \in Reqs |-> FALSE]
    /\ sel = [r \in Reqs |-> 0]
    /\ ms = [r \in Reqs |-> 0]
    /\ elapsed = [r \in Reqs |-> 0]
    /\ todo = [r \in Reqs |-> {}]
    /\ out = [r \in Reqs |-> <<>>]
    /\ outcome = [r \in Reqs |-> "none"]
    /\ printed = [r \in Reqs |-> <<>>]
    /\ mw = [r \in Reqs |-> Nil]
    /\ \E port \in {0, DefaultPort, DefaultPort + 1} :
          load = [stage |-> "parsed", Port |-> port, err |-> ""]

NextLoad == SetDefaults \/ Validate

SpecLoad == InitLoad /\ [][NextLoad]_vars

(* The application: a rule for /health as in the README's example and a   *)
(* rule with a body pattern, requests for /health and for other paths      *)
HealthRule ==
    [Path |-> pathHealth, Method |-> sGET, Headers |-> (txtContentType :> <<".", "*">>),
     QueryParams |-> EmptyMap, Body |-> <<>>, ResponseDelay |-> Nil,
     Response |-> [StatusCode |-> StatusOK, Headers |-> EmptyMap,
                   Body |-> [kind |-> "string", val |-> txtOk]]]

EchoRule ==
    [Path |-> pathA, Method |-> sPOST, Headers |-> EmptyMap, QueryParams |-> EmptyMap,
     Body |-> <<"a">>, ResponseDelay |-> Nil,
     Response |-> [StatusCode |-> StatusCreated, Headers |-> (nameXa :> txtY),
                   Body |-> [kind |-> "object", key |-> txtOk, val |-> txtY]]]

AppConfigs == {<<HealthRule, EchoRule>>, <<EchoRule>>}

AppRequests ==
    {Request(m, p, <<>>, <<>>, b) :
        m \in {sGET, sPOST}, p \in {pathHealth, pathA},
        b \in {NoBody, [data |-> <<"a">>, failing |-> FALSE],
               [data |-> <<"a">>, failing |-> TRUE]}}

InitApp ==
    /\ config \in AppConfigs
    /\ pc = [r \in Reqs |-> "idle"]
    /\ req = [r \in Reqs |-> NoRequest]
    /\ Idle

NextApp ==
    \/ \E r \in Reqs, q \in AppRequests : Arrive(r, q)
    \/ \E r \in Reqs : Mux(r)
    \/ \E r \in Reqs : ServeHTTP(r)
    \/ \E r \in Reqs : SetHeader(r)
    \/ \E r \in Reqs : WriteHeader(r)
    \/ \E r \in Reqs : WriteBody(r)
    \/ \E r \in Reqs : LogResponse(r)

SpecApp == InitApp /\ [][NextApp]_vars

\* the steps a handler takes by itself once it is scheduled
HandlerStep(r) ==
    \/ ServeHTTP(r)
    \/ Draw(r)
    \/ Unlock(r)
    \/ SelectTimer(r)
    \/ SelectDone(r)
    \/ Park(r)
    \/ SetHeader(r)
    \/ WriteHeader(r)
    \/ WriteBody(r)

\* the passing of time for a request's running timer
TimerStep(r) == Tick(r) \/ TimerFire(r)

\* the scheduler runs every runnable handler, running timers eventually
\* fire, and a released mutex is eventually granted to a waiter
Fairness ==
    \A r \in Reqs :
        /\ WF_vars(HandlerStep(r))
        /\ WF_vars(TimerStep(r))
        /\ SF_vars(Lock(r))

SpecLive == Init /\ [][Next]_vars /\ Fairness

(***************************************************************************)
(* Properties                                                              *)
(***************************************************************************)
\* the request's ServeHTTP call has selected its rule
Served(r) == pc[r] \notin {"idle", "serve"}

\* the conditions of a rule on a request, stated one by one
PathHolds(rule, q) == rule.Path = q.Path
MethodHolds(rule, q) == rule.Method = ToUpper(q.Method)
EntryHolds(p, v) ==
    IF Compile(p).ok THEN MatchString(Compile(p).prog, v) ELSE v = p
HeadersHold(rule, q) ==
    \A n \in DOMAIN rule.Headers : EntryHolds(rule.Headers[n], HeaderGet(q.Header, n))
ParamsHold(rule, q) ==
    \A n \in DOMAIN rule.QueryParams : EntryHolds(rule.QueryParams[n], QueryGet(q.Query, n))
BodyHolds(rule, q) ==
    \/ rule.Body = <<>>
    \/ /\ ~q.Body.failing
       /\ Compile(rule.Body).ok
       /\ MatchString(Compile(rule.Body).prog, q.Body.data)
Satisfies(rule, q) ==
    /\ PathHolds(rule, q)
    /\ MethodHolds(rule, q)
    /\ HeadersHold(rule, q)
    /\ ParamsHold(rule, q)
    /\ BodyHolds(rule, q)
Satisfying(requests, q) == {i \in 1..Len(requests) : Satisfies(requests[i], q)}
Earliest(requests, q) ==
    IF Satisfying(requests, q) = {} THEN 0
    ELSE CHOOSE i \in Satisfying(requests, q) : \A k \in Satisfying(requests, q) : i <= k

\* C1: first match wins - the rule returned for a request is the one of
\* smallest index among the rules all of whose conditions hold for it (none
\* when no rule satisfies it), never a later satisfying rule.
C1_FirstMatchWins ==
    \A r \in Reqs : Served(r) => sel[r] = Earliest(config, req[r])

\* C1 witness: two different rules of the list both satisfy the request and
\* the first one was returned.
C1_Witness ==
    /\ Served(1)
    /\ Len(config) >= 2
    /\ config[1] # config[2]
    /\ Satisfying(config, req[1]) = {1, 2}
    /\ sel[1] = 1

\* C2 (as stated): when no rule matches, the response has status 404 and an
\* empty body, and the call is over.
C2_NotFoundEmptyBody ==
    \A r \in Reqs :
        (Served(r) /\ Earliest(config, req[r]) = 0)
            => /\ pc[r] = "done"
               /\ StatusOf(out[r]) = 404
               /\ BodyOf(out[r]) = <<>>

\* C2 (amended): when no rule matches, the response has status 404 and its
\* body is the text "404 page not found" followed by a newline, written by
\* http.NotFound; the call is then over, having done nothing else.
C2_NotFoundResponse ==
    \A r \in Reqs :
        (Served(r) /\ Earliest(config, req[r]) = 0)
            => /\ pc[r] = "done"
               /\ outcome[r] = "notfound"
               /\ StatusOf(out[r]) = 404
               /\ BodyOf(out[r]) = <<"4","0","4"," ","p","a","g","e"," ",
                                     "n","o","t"," ","f","o","u","n","d","\n">>
               /\ Len(SelectSeq(out[r], LAMBDA c : c.call = "Write")) = 1
               /\ Len(SelectSeq(out[r], LAMBDA c : c.call = "WriteHeader")) = 1

\* C2 witness: a request that no rule matched has been answered.
C2_Witness ==
    \E r \in Reqs : Served(r) /\ Earliest(config, req[r]) = 0 /\ outcome[r] = "notfound"

\* C3 (as stated): for a matched request, once its cancellation signal has
\* fired nothing more is written for it - no header, status code or body
\* byte - whether the rule has a delay or not and however the timer and the
\* signal interleave.
C3_NoWriteAfterCancel ==
    [][\A r \in Reqs :
          (Served(r) /\ sel[r] # 0 /\ cancelled[r]) => out'[r] = out[r]]_vars

\* C4: when the cancellation signal fires while the handler is suspended in
\* the delay wait, before the timer has expired, the handler returns and
\* has written nothing: no header, no status code, no body byte.
C4_CancelDuringWait ==
    [][\A r \in Reqs :
          (pc[r] = "parked" /\ ~cancelled[r] /\ cancelled'[r])
              => /\ pc'[r] = "done"
                 /\ outcome'[r] = "aborted"
                 /\ out'[r] = <<>>]_vars

\* C4 witness: a request with a delay was cancelled before its timer
\* expired and ended aborted.
C4_Witness ==
    \E r \in Reqs :
        /\ outcome[r] = "aborted"
        /\ cancelled[r]
        /\ config[sel[r]].ResponseDelay # Nil
        /\ config[sel[r]].ResponseDelay.Max > config[sel[r]].ResponseDelay.Min
        /\ elapsed[r] < ms[r]
        /\ out[r] = <<>>

\* C5: every ServeHTTP call eventually ends in one of the outcomes
\* not-found, response written or aborted on cancellation, whatever the
\* other requests do.
C5_Terminates ==
    \A r \in Reqs :
        (pc[r] = "serve") ~>
            (pc[r] = "done" /\ outcome[r] \in {"notfound", "written", "aborted"})

\* C5 witness: all requests have ended, after both drew a delay under the
\* mutex; one wrote its response and one was aborted.
C5_Witness ==
    /\ \A r \in Reqs : pc[r] = "done" /\ sel[r] # 0
    /\ \A r \in Reqs : config[sel[r]].ResponseDelay # Nil
                       /\ config[sel[r]].ResponseDelay.Max > config[sel[r]].ResponseDelay.Min
    /\ \E r \in Reqs : outcome[r] = "written"
    /\ \E r \in Reqs : outcome[r] = "aborted"

\* C6: at most one request is executing a draw from the handler's random
\* generator, and a request draws only while it holds randMu.
C6_DrawMutex ==
    /\ Cardinality({r \in Reqs : pc[r] = "draw"}) <= 1
    /\ \A r \in Reqs : pc[r] = "draw" => randMu = r

\* C6 witness: one request is drawing while another waits for the mutex.
C6_Witness ==
    \E r1, r2 \in Reqs : r1 # r2 /\ pc[r1] = "draw" /\ pc[r2] = "lock"

\* C7: a rule whose path is not the very string of the request's path
\* (letter case and trailing slash included) is never the rule returned.
C7_PathExact ==
    \A r \in Reqs : \A i \in 1..Len(config) :
        (Served(r) /\ config[i].Path # req[r].Path) => sel[r] # i

\* C7 witness: the first rule satisfies the request in everything but the
\* letter case of its path, and was not returned.
C7_Witness ==
    /\ Served(1)
    /\ config[1].Path # req[1].Path
    /\ ToUpper(config[1].Path) = ToUpper(req[1].Path)
    /\ MethodHolds(config[1], req[1])
    /\ HeadersHold(config[1], req[1])
    /\ ParamsHold(config[1], req[1])
    /\ BodyHolds(config[1], req[1])
    /\ sel[1] # 1

\* the other conditions of the first rule hold for the request
FirstRuleButMethod(r) ==
    /\ Served(r)
    /\ PathHolds(config[1], req[r])
    /\ HeadersHold(config[1], req[r])
    /\ ParamsHold(config[1], req[r])
    /\ BodyHolds(config[1], req[r])

\* C8 (as stated): a rule whose other conditions hold matches exactly when
\* the request method and the rule's method are equal after upper-casing
\* both.
C8_MethodFoldsBoth ==
    \A r \in Reqs :
        FirstRuleButMethod(r)
            => (sel[r] = 1 <=> ToUpper(req[r].Method) = ToUpper(config[1].Method))

\* C8 (amended): only the request method is upper-cased - a rule whose other
\* conditions hold matches exactly when its method as stored equals the
\* upper-cased request method; on a rule list that went through setDefaults,
\* which upper-cases the rules' methods, this is equality after upper-casing
\* both.
C8_MethodFoldsRequest ==
    \A r \in Reqs :
        FirstRuleButMethod(r)
            => /\ sel[r] = 1 <=> ToUpper(req[r].Method) = config[1].Method
               /\ \A ord \in Perms(MapKeys(config)) :
                     findMatchingRule(setDefaults(config), req[r], ord).rule = 1
                        <=> ToUpper(req[r].Method) = ToUpper(config[1].Method)

\* C8 witness: the first rule stores its method in lower case, its other
\* conditions hold for a request with that method, and it was not returned.
C8_Witness ==
    /\ FirstRuleButMethod(1)
    /\ config[1].Method # ToUpper(config[1].Method)
    /\ ToUpper(req[1].Method) = ToUpper(config[1].Method)
    /\ sel[1] # 1

\* C9: a header or query-parameter entry whose pattern does not compile is
\* satisfied exactly when the request's value for that name (empty when
\* absent) equals the pattern text: a rule with such an entry is returned
\* only if the value equals the text, and a rule whose only entry it is,
\* and whose other conditions hold, is returned if the value equals it.
C9_InvalidPatternExact ==
    \A r \in Reqs : Served(r) =>
        /\ \A i \in 1..Len(config) : sel[r] = i =>
              /\ \A n \in DOMAIN config[i].Headers :
                    ~Compile(config[i].Headers[n]).ok
                        => HeaderGet(req[r].Header, n) = config[i].Headers[n]
              /\ \A n \in DOMAIN config[i].QueryParams :
                    ~Compile(config[i].QueryParams[n]).ok
                        => QueryGet(req[r].Query, n) = config[i].QueryParams[n]
        /\ \A n \in DOMAIN config[1].Headers :
              ( /\ DOMAIN config[1].Headers = {n}
                /\ ~Compile(config[1].Headers[n]).ok
                /\ HeaderGet(req[r].Header, n) = config[1].Headers[n]
                /\ PathHolds(config[1], req[r]) /\ MethodHolds(config[1], req[r])
                /\ ParamsHold(config[1], req[r]) /\ BodyHolds(config[1], req[r]) )
              => sel[r] = 1
        /\ \A n \in DOMAIN config[1].QueryParams :
              ( /\ DOMAIN config[1].QueryParams = {n}
                /\ ~Compile(config[1].QueryParams[n]).ok
                /\ QueryGet(req[r].Query, n) = config[1].QueryParams[n]
                /\ PathHolds(config[1], req[r]) /\ MethodHolds(config[1], req[r])
                /\ HeadersHold(config[1], req[r]) /\ BodyHolds(config[1], req[r]) )
              => sel[r] = 1

\* C9 witness: the returned rule has a header pattern that does not
\* compile, and the request carries that very text as the header's value.
C9_Witness ==
    /\ Served(1)
    /\ sel[1] = 1
    /\ \E n \in DOMAIN config[1].Headers :
          /\ ~Compile(config[1].Headers[n]).ok
          /\ HeaderGet(req[1].Header, n) = config[1].Headers[n]

\* C10: a rule whose body pattern is not empty and does not compile is
\* never returned, whatever the request body is.
C10_InvalidBodyNeverMatches ==
    \A r \in Reqs : \A i \in 1..Len(config) :
        (Served(r) /\ config[i].Body # <<>> /\ ~Compile(config[i].Body).ok)
            => sel[r] # i

\* C10 witness: the request body is exactly the text of the first rule's
\* body pattern, which does not compile, and the rule was not returned.
C10_Witness ==
    /\ Served(1)
    /\ config[1].Body # <<>>
    /\ ~Compile(config[1].Body).ok
    /\ ~req[1].Body.failing
    /\ req[1].Body.data = config[1].Body
    /\ PathHolds(config[1], req[1])
    /\ MethodHolds(config[1], req[1])
    /\ sel[1] = 0

\* the pattern ".*"
DotStar == <<".", "*">>

\* the request carries no header line of that name (names compared in
\* canonical form), no query parameter of that name
LacksHeader(q, n) ==
    \A i \in 1..Len(q.Header) : CanonicalHeaderKey(q.Header[i].name) # CanonicalHeaderKey(n)
LacksParam(q, n) == \A i \in 1..Len(q.Query) : q.Query[i].name # n

\* the conditions of a rule other than its entries of pattern ".*"
HoldsButDotStar(rule, q) ==
    /\ PathHolds(rule, q)
    /\ MethodHolds(rule, q)
    /\ BodyHolds(rule, q)
    /\ \A n \in DOMAIN rule.Headers :
          rule.Headers[n] # DotStar => EntryHolds(rule.Headers[n], HeaderGet(q.Header, n))
    /\ \A n \in DOMAIN rule.QueryParams :
          rule.QueryParams[n] # DotStar
              => EntryHolds(rule.QueryParams[n], QueryGet(q.Query, n))

\* the conditions of a rule with each header and query parameter that the
\* request lacks taken as the empty string
HoldsAbsentAsEmpty(rule, q) ==
    /\ PathHolds(rule, q)
    /\ MethodHolds(rule, q)
    /\ BodyHolds(rule, q)
    /\ \A n \in DOMAIN rule.Headers :
          EntryHolds(rule.Headers[n],
                     IF LacksHeader(q, n) THEN <<>> ELSE HeaderGet(q.Header, n))
    /\ \A n \in DOMAIN rule.QueryParams :
          EntryHolds(rule.QueryParams[n],
                     IF LacksParam(q, n) THEN <<>> ELSE QueryGet(q.Query, n))

C12_MissingParamNeverMatches ==
    \A r \in Reqs : \A i \in 1..Len(config) :
        (Served(r) /\ \E n \in DOMAIN config[i].QueryParams : LacksParam(req[r], n))
            => sel[r] # i

\* the request without the query parameters the rule does not list
WithoutExtraParams(rule, q) ==
    [q EXCEPT !.Query = SelectSeq(@, LAMBDA e : e.name \in DOMAIN rule.QueryParams)]

\* the request has a query parameter the rule does not list
HasExtraParam(rule, q) ==
    \E i \in 1..Len(q.Query) : q.Query[i].name \notin DOMAIN rule.QueryParams

\* C13: query parameters of the request whose names are not keys of the
\* rule's queryParams are ignored: a rule is returned only if it is
\* satisfied by the request with those parameters removed, and the first
\* rule is returned exactly when it is satisfied by the request with those
\* parameters removed.
C13_ExtraParamsIgnored ==
    \A r \in Reqs : Served(r) =>
        /\ \A i \in 1..Len(config) :
              sel[r] = i => Satisfies(config[i], WithoutExtraParams(config[i], req[r]))
        /\ sel[r] = 1 <=> Satisfies(config[1], WithoutExtraParams(config[1], req[r]))

\* C13 witness: the returned rule has query-parameter patterns and the
\* request has a parameter the rule does not list.
C13_Witness ==
    /\ Served(1)
    /\ sel[1] = 1
    /\ config[1].QueryParams # EmptyMap
    /\ HasExtraParam(config[1], req[1])

\* the rule has no header pattern, no query-parameter pattern and an empty
\* body pattern
Unconditional(rule) ==
    /\ DOMAIN rule.Headers = {}
    /\ DOMAIN rule.QueryParams = {}
    /\ rule.Body = <<>>

\* C14: a rule with no header patterns, no query-parameter patterns and an
\* empty body pattern matches every request with its path and method,
\* whatever the request's headers, query string and body: such a rule in
\* first position is returned, and in any position it or an earlier rule is.
C14_UnconditionalRule ==
    \A r \in Reqs : \A i \in 1..Len(config) :
        ( /\ Served(r)
          /\ Unconditional(config[i])
          /\ PathHolds(config[i], req[r])
          /\ MethodHolds(config[i], req[r]) )
        => sel[r] \in 1..i

\* C14 witness: a rule without conditions was returned for a request that
\* has a header, a query parameter and a body.
C14_Witness ==
    /\ Served(1)
    /\ sel[1] = 1
    /\ Unconditional(config[1])
    /\ req[1].Header # <<>>
    /\ req[1].Query # <<>>
    /\ req[1].Body.data # <<>>

\* C15: the header predicate and the query-parameter predicate are the
\* conjunction of the entries of the rule's pattern map, in whatever order
\* the entries are visited; a first rule whose path, method and body
\* conditions hold is returned exactly when every entry of both maps is
\* satisfied.
C15_Conjunction ==
    \A r \in Reqs : Served(r) =>
        /\ \A i \in 1..Len(config) : \A ord \in Perms(MapKeys(config)) :
              /\ matchesHeaders(config[i].Headers, req[r].Header, ord)
                    <=> HeadersHold(config[i], req[r])
              /\ matchesQueryParams(config[i].QueryParams, req[r].Query, ord)
                    <=> ParamsHold(config[i], req[r])
        /\ ( /\ PathHolds(config[1], req[r])
             /\ MethodHolds(config[1], req[r])
             /\ BodyHolds(config[1], req[r]) )
           => (sel[r] = 1 <=> (HeadersHold(config[1], req[r]) /\ ParamsHold(config[1], req[r])))

\* C15 witness: of the two header patterns of the first rule one is
\* satisfied by the request and one is not, and the rule was not returned.
C15_Witness ==
    /\ Served(1)
    /\ sel[1] = 0
    /\ PathHolds(config[1], req[1])
    /\ MethodHolds(config[1], req[1])
    /\ \E n1, n2 \in DOMAIN config[1].Headers :
          /\ n1 # n2
          /\ EntryHolds(config[1].Headers[n1], HeaderGet(req[1].Header, n1))
          /\ ~EntryHolds(config[1].Headers[n2], HeaderGet(req[1].Header, n2))

\* calculateDelay has returned for the request: ms is its result
DelayReturned(r) == sel[r] # 0 /\ pc[r] = "select"

\* the request is inside the locked section of calculateDelay
InLockedSection(r) == pc[r] \in {"lock", "draw", "unlock"}

\* C16: for a delay with 0 <= min <= max the result of calculateDelay lies
\* in [min, max]; with min = max it is min and the random generator is not
\* consulted; with min < max every integer of [min, max], both ends
\* included, is a result the draw can give.
C16_DelayInRange ==
    \A r \in Reqs : sel[r] # 0 =>
        LET delay == config[sel[r]].ResponseDelay
        IN  /\ DelayReturned(r) => (delay.Min <= ms[r] /\ ms[r] <= delay.Max)
            /\ delay.Min = delay.Max
                  => /\ ~InLockedSection(r)
                     /\ DelayReturned(r) => ms[r] = delay.Min
            /\ pc[r] = "draw"
                  => /\ delay.Min < delay.Max
                     /\ \A d \in delay.Min..delay.Max :
                           ENABLED (Draw(r) /\ ms'[r] = d)

\* C16 witness: calculateDelay returned a value strictly between the min
\* and the max of the delay.
C16_Witness ==
    \E r \in Reqs :
        /\ DelayReturned(r)
        /\ config[sel[r]].ResponseDelay.Min < ms[r]
        /\ ms[r] < config[sel[r]].ResponseDelay.Max

\* the request was matched by a rule that has a responseDelay
Delayed(r) == sel[r] # 0 /\ config[sel[r]].ResponseDelay # Nil

\* C17: for a request matched by a rule with a responseDelay, nothing is
\* written - no header, status code or body byte - before the computed
\* delay, which is at least min milliseconds, has fully elapsed, and a
\* response is produced only after the wait has completed.
C17_NothingBeforeDelay ==
    \A r \in Reqs :
        (Delayed(r) /\ (out[r] # <<>> \/ pc[r] \in {"headers", "body"}
                        \/ outcome[r] = "written"))
            => /\ config[sel[r]].ResponseDelay.Min <= ms[r]
               /\ ms[r] <= elapsed[r]

\* C17 witness: a response was written for a rule whose computed delay was
\* not zero.
C17_Witness ==
    \E r \in Reqs :
        /\ Delayed(r)
        /\ ms[r] > 0
        /\ outcome[r] = "written"
        /\ out[r] # <<>>

\* positions in a call sequence of the calls of one kind
CallsAt(calls, kind) == {i \in 1..Len(calls) : calls[i].call = kind}

\* C18: for a matched request every configured response header is set
\* before the status code is written, the status code is written at most
\* once - exactly once when the response is complete - with the rule's
\* configured value, and no body byte is written before the status code.
C18_OutputOrder ==
    \A r \in Reqs : sel[r] # 0 =>
        LET calls == out[r]
            response == config[sel[r]].Response
            status == CallsAt(calls, "WriteHeader")
        IN  /\ Cardinality(status) <= 1
            /\ (outcome[r] = "written" \/ pc[r] = "body") => Cardinality(status) = 1
            /\ status = {} => CallsAt(calls, "Write") = {}
            /\ \A i \in status :
                  /\ calls[i].code = response.StatusCode
                  /\ \A j \in CallsAt(calls, "Set") : j < i
                  /\ \A j \in CallsAt(calls, "Write") : i < j
                  /\ \A key \in DOMAIN response.Headers :
                        \E j \in 1..(i - 1) :
                            /\ calls[j].call = "Set"
                            /\ calls[j].key = CanonicalHeaderKey(key)
                            /\ calls[j].value = response.Headers[key]

\* C18 witness: a complete response with two headers, a status code and a
\* body.
C18_Witness ==
    \E r \in Reqs :
        /\ outcome[r] = "written"
        /\ Cardinality(CallsAt(out[r], "Set")) = 2
        /\ Cardinality(CallsAt(out[r], "Write")) = 1

\* the calls made after the status code was written
AfterStatus(calls) ==
    LET status == CallsAt(calls, "WriteHeader")
    IN  IF status = {} THEN <<>>
        ELSE SubSeq(calls, (CHOOSE i \in status : \A k \in status : i <= k) + 1, Len(calls))

\* the JSON text of the structured bodies of the model
JSONText(body) ==
    IF body.kind = "object"
    THEN <<"{", "\"">> \o body.key \o <<"\"", ":", "\"">> \o body.val \o <<"\"", "}">>
    ELSE <<"[", "\"">> \o body.val \o <<"\"", "]">>

\* C19: in a complete response, a string body is written as exactly its
\* bytes in one Write and nothing else; a structured body that can be
\* serialized is written as exactly its JSON serialization; for an absent
\* body no Write call follows the status code.
C19_BodyByType ==
    \A r \in Reqs : (sel[r] # 0 /\ outcome[r] = "written") =>
        LET body == config[sel[r]].Response.Body
            after == AfterStatus(out[r])
        IN  /\ body = Nil => after = <<>>
            /\ (body # Nil /\ body.kind = "string")
                  => after = << [call |-> "Write", data |-> body.val] >>
            /\ (body # Nil /\ body.kind \in {"object", "list"})
                  => after = << [call |-> "Write", data |-> JSONText(body)] >>

\* C19 witness: every call has completed its response, for a rule whose
\* body is a string that is not empty, and the string's bytes were written.
C19_Witness ==
    \A r \in Reqs :
        /\ sel[r] # 0
        /\ outcome[r] = "written"
        /\ config[sel[r]].Response.Body # Nil
        /\ config[sel[r]].Response.Body.kind = "string"
        /\ config[sel[r]].Response.Body.val # <<>>
        /\ BodyOf(out[r]) = config[sel[r]].Response.Body.val

\* the response body of the request's rule cannot be serialized
Unserializable(r) ==
    /\ sel[r] # 0
    /\ config[sel[r]].Response.Body # Nil
    /\ config[sel[r]].Response.Body.kind = "nan"

\* the calls that set the configured headers and then the status code
Committed(r, calls) ==
    /\ calls # <<>>
    /\ calls[Len(calls)] = [call |-> "WriteHeader",
                            code |-> config[sel[r]].Response.StatusCode]
    /\ \A i \in 1..(Len(calls) - 1) : calls[i].call = "Set"
    /\ \A key \in DOMAIN config[sel[r]].Response.Headers :
          \E i \in 1..(Len(calls) - 1) :
              /\ calls[i].key = CanonicalHeaderKey(key)
              /\ calls[i].value = config[sel[r]].Response.Headers[key]

\* C20: when the serialization of a structured body fails, the configured
\* headers and the status code have already been committed; the handler
\* then writes nothing more - no body byte, no other status code or
\* header - reports the error once and returns normally.
C20_MarshalFailure ==
    /\ \A r \in Reqs : Unserializable(r) =>
          /\ pc[r] = "body" => (Committed(r, out[r]) /\ printed[r] = <<>>)
          /\ pc[r] = "done"
                => /\ Committed(r, out[r])
                   /\ outcome[r] = "written"
                   /\ Len(printed[r]) = 1
                   /\ printed[r][1].err = "failed to marshal JSON"
    /\ \A r \in Reqs : (sel[r] # 0 /\ ~Unserializable(r)) => printed[r] = <<>>

\* C20 witness: a call whose rule has headers and a body that cannot be
\* serialized has returned.
C20_Witness ==
    \E r \in Reqs :
        /\ Unserializable(r)
        /\ pc[r] = "done"
        /\ config[sel[r]].Response.Headers # EmptyMap
        /\ printed[r] # <<>>

\* ServeHTTP selects the rule for the request in this step
Selects(r) == pc[r] = "serve" /\ pc'[r] # "serve"

DelayAllowed(delay) ==
    /\ 0 <= delay.Min
    /\ delay.Min <= delay.Max
    /\ delay.Max <= 10000

\* everything validate checks other than the delays is in order
ValidButDelays(port, requests) ==
    /\ port # 0
    /\ \A i \in 1..Len(requests) :
          /\ requests[i].Path # <<>>
          /\ requests[i].Method # <<>>
          /\ requests[i].Response.StatusCode \in 100..599

\* C22: validate accepts a rule's responseDelay exactly when it is absent
\* or has 0 <= min <= max <= 10000 - a configuration that is valid in
\* everything else is accepted exactly when every delay is - so every
\* configuration that passes validation has, for every rule with a delay,
\* min <= max and both bounds in 0..10000.
C22_DelayValidated ==
    load.stage \in {"loaded", "rejected"} =>
        /\ load.stage = "loaded"
              => \A i \in 1..Len(config) :
                    config[i].ResponseDelay # Nil => DelayAllowed(config[i].ResponseDelay)
        /\ ValidButDelays(load.Port, config)
              => (load.stage = "loaded"
                    <=> \A i \in 1..Len(config) :
                           config[i].ResponseDelay = Nil
                           \/ DelayAllowed(config[i].ResponseDelay))

\* C22 witness: a configuration with a delay whose max is 10000 was
\* accepted.
C22_Witness ==
    /\ load.stage = "loaded"
    /\ \E i \in 1..Len(config) :
          /\ config[i].ResponseDelay # Nil
          /\ config[i].ResponseDelay.Max = 10000
          /\ config[i].ResponseDelay.Min < 10000

\* C23: setDefaults gives an unset method the value GET, upper-cases every
\* method, gives an unset status code the value 200 and an unset port the
\* value 8080, and applied again it changes nothing; after a successful
\* validate every rule has a path that is not empty, a method that is not
\* empty and equals its own upper-casing, a status code in 100..599, and the
\* port is not zero.
C23_DefaultsThenValid ==
    [][/\ (load.stage = "parsed" /\ load'.stage = "defaulted")
            => /\ load'.Port = (IF load.Port = 0 THEN 8080 ELSE load.Port)
               /\ Len(config') = Len(config)
               /\ \A i \in 1..Len(config) :
                     /\ config[i].Method = <<>> => config'[i].Method = <<"G","E","T">>
                     /\ config'[i].Method = ToUpper(config'[i].Method)
                     /\ ToUpper(config[i].Method) \in {<<>>, config'[i].Method}
                     /\ config'[i].Response.StatusCode =
                           (IF config[i].Response.StatusCode = 0 THEN 200
                            ELSE config[i].Response.StatusCode)
               /\ setDefaults(config') = config'
               /\ setDefaultsPort(load'.Port) = load'.Port
       /\ load'.stage = "loaded"
            => /\ load'.Port # 0
               /\ \A i \in 1..Len(config') :
                     /\ config'[i].Path # <<>>
                     /\ config'[i].Method # <<>>
                     /\ config'[i].Method = ToUpper(config'[i].Method)
                     /\ config'[i].Response.StatusCode \in 100..599]_vars

\* C23 witness: a configuration parsed without port, whose rule had a
\* lower-case method and no status code, was accepted.
C23_Witness ==
    /\ load.stage = "loaded"
    /\ load.Port = 8080
    /\ Len(config) >= 2
    /\ config[1].Method = <<"G","E","T">>
    /\ config[1].Response.StatusCode = 200

\* C24: serving never changes the rule list - no step of any ServeHTTP
\* call, matched or not, delayed or cancelled, alone or interleaved with
\* others, changes the handler's configuration.
C24_ConfigUnchanged == [][config' = config]_vars

\* C24 witness: all calls have ended, one with the not-found response and
\* one with the response of a rule with a structured body.
C24_Witness ==
    /\ \A r \in Reqs : pc[r] = "done"
    /\ \E r \in Reqs : outcome[r] = "notfound"
    /\ \E r \in Reqs : /\ outcome[r] = "written"
                       /\ config[sel[r]].Response.Body # Nil
                       /\ config[sel[r]].Response.Body.kind = "object"

\* what belongs to one request's call
Local(r) == <<pc[r], req[r], cancelled[r], sel[r], ms[r], elapsed[r], todo[r], out[r],
              outcome[r], printed[r]>>

\* the Set calls of a call sequence set exactly the configured headers,
\* each once
SetsExactly(calls, headers) ==
    /\ Cardinality(CallsAt(calls, "Set")) = Cardinality(DOMAIN headers)
    /\ \A key \in DOMAIN headers :
          \E i \in CallsAt(calls, "Set") :
              calls[i].key = CanonicalHeaderKey(key) /\ calls[i].value = headers[key]

\* C25: requests are independent - a step of one call changes nothing that
\* belongs to another call, and whatever the other calls do, the rule
\* selected for a request is the first rule its own request satisfies and
\* a response written for it consists of that rule's headers, status code
\* and body; between requests only the lock around the draw is shared.
C25_Independent ==
    [][/\ \A r1, r2 \in Reqs :
             (r1 < r2 /\ Local(r1)' # Local(r1)) => Local(r2)' = Local(r2)
       /\ \A r \in Reqs :
             /\ Selects(r) => sel'[r] = Earliest(config, req'[r])
             /\ (outcome[r] # "written" /\ outcome'[r] = "written")
                   => /\ SetsExactly(out'[r], config[sel'[r]].Response.Headers)
                      /\ StatusOf(out'[r]) = config[sel'[r]].Response.StatusCode
                      /\ BodyOf(out'[r]) =
                            BodyOf(writeBody(config[sel'[r]].Response.Body).calls)
             /\ (Served(r) /\ outcome[r] \in {"notfound", "written", "aborted"})
                   => Local(r)' = Local(r)]_vars

\* C25 witness: two calls for different rules are under way at the same
\* time, one waiting for its delay and one writing its response.
C25_Witness ==
    \E r1, r2 \in Reqs :
        /\ pc[r1] = "parked"
        /\ pc[r2] = "body"
        /\ sel[r1] # sel[r2]

\* the request holds the lock on the random generator
HoldsLock(r) == randMu = r

\* C29: the lock on the random generator is held only during one draw - a
\* request holds randMu only between Lock and Unlock of calculateDelay,
\* never while it waits for its delay or writes its response - and a
\* request whose rule has no responseDelay, or one with min = max, never
\* reaches the locked section.
C29_LockOnlyForDraw ==
    \A r \in Reqs :
        /\ HoldsLock(r) => pc[r] \in {"draw", "unlock"}
        /\ pc[r] \in {"select", "parked", "headers", "body", "done"} => ~HoldsLock(r)
        /\ InLockedSection(r)
              => /\ config[sel[r]].ResponseDelay # Nil
                 /\ config[sel[r]].ResponseDelay.Min < config[sel[r]].ResponseDelay.Max

\* C29 witness: one request holds the lock for its draw while another,
\* which drew before, is suspended in its delay wait.
C29_Witness ==
    \E r1, r2 \in Reqs :
        /\ HoldsLock(r1)
        /\ pc[r1] = "draw"
        /\ pc[r2] = "parked"
        /\ config[sel[r2]].ResponseDelay.Min < config[sel[r2]].ResponseDelay.Max

\* C27 (as stated): the response headers of a complete response are the
\* same for every order in which the rule's configured header entries are
\* applied, also when two configured names denote the same header: two
\* complete responses of the same rule carry the same headers.
C27_HeaderOrderIrrelevant ==
    \A r1, r2 \in Reqs :
        ( /\ outcome[r1] = "written"
          /\ outcome[r2] = "written"
          /\ sel[r1] = sel[r2] )
        => FinalHeaders(out[r1]) = FinalHeaders(out[r2])

\* C28: a failure to read the request body makes the body predicate of the
\* rule under evaluation false and goes no further - no rule that had to
\* read the body is returned, the selector goes on to the following rules
\* and returns the first rule satisfied without reading the body, and the
\* call proceeds normally, to that rule's response or to the not-found
\* response, with no error reported.
C28_ReadFailureIsNoMatch ==
    [][\A r \in Reqs : (Selects(r) /\ req[r].Body.failing) =>
          /\ sel'[r] # 0 => config[sel'[r]].Body = <<>>
          /\ sel'[r] = Earliest(config, req[r])
          /\ sel'[r] = 0 => (pc'[r] = "done" /\ outcome'[r] = "notfound"
                             /\ StatusOf(out'[r]) = 404)
          /\ sel'[r] # 0 => (pc'[r] = "headers" /\ outcome'[r] = "none")
          /\ printed'[r] = <<>>]_vars

\* C28 witness: the body could not be read, the first rule has a body
\* pattern that the bytes sent would satisfy, and the second rule, which
\* has no body pattern, was returned.
C28_Witness ==
    /\ Served(1)
    /\ req[1].Body.failing
    /\ Len(config) >= 2
    /\ config[1].Body # <<>>
    /\ Compile(config[1].Body).ok
    /\ PathHolds(config[1], req[1])
    /\ MethodHolds(config[1], req[1])
    /\ sel[1] = 2

\* the mux hands the request to the logging middleware in this step
Wraps(r) == pc[r] = "mux" /\ pc'[r] = "serve"

\* C26: the logging middleware is transparent - the calls that reach the
\* underlying response writer are exactly the calls the wrapped handler
\* made, in the same order (headers, status code, body bytes), the status
\* and body it logs are those written, and the body the wrapped handler is
\* given holds exactly the bytes of the original request body.
C26_MiddlewareTransparent ==
    [][\A r \in Reqs :
          /\ mw'[r] # Nil
                => /\ mw'[r].under = out'[r]
                   /\ mw'[r].body = BodyOf(out'[r])
                   /\ StatusOf(out'[r]) # 0 => mw'[r].statusCode = StatusOf(out'[r])
          /\ Wraps(r)
                => /\ req'[r].Body.data = req[r].Body.data
                   /\ mw'[r].requestBody = req[r].Body.data
                   /\ req'[r] = [req[r] EXCEPT !.Body = req'[r].Body]]_vars

\* C26 witness: a wrapped call that read a request body and wrote a header,
\* a status code and a body has returned and was logged.
C26_Witness ==
    \E r \in Reqs :
        /\ mw[r] # Nil
        /\ mw[r].logged
        /\ mw[r].requestBody # <<>>
        /\ outcome[r] = "written"
        /\ CallsAt(mw[r].under, "Set") # {}
        /\ CallsAt(mw[r].under, "Write") # {}

\* C30: a request whose path is exactly /health is answered by the health
\* endpoint - status 200, body "OK" - whatever its method and whatever the
\* rules; it never reaches the rule selector, so no rule is selected for
\* it, not even a rule for the path /health that it satisfies.
C30_HealthEndpoint ==
    \A r \in Reqs :
        (pc[r] \notin {"idle", "mux"} /\ req[r].Path = <<"/","h","e","a","l","t","h">>)
            => /\ pc[r] = "done"
               /\ outcome[r] = "health"
               /\ sel[r] = 0
               /\ mw[r] = Nil
               /\ out[r] = << [call |-> "WriteHeader", code |-> 200],
                              [call |-> "Write", data |-> <<"O","K">>] >>

\* C30 witness: a request for /health was answered by the health endpoint
\* although a configured rule is satisfied by it.
C30_Witness ==
    \E r \in Reqs :
        /\ outcome[r] = "health"
        /\ Satisfying(config, req[r]) # {}

====
